---- MODULE Spec2Model ----
(***************************************************************************)
(* Model of the ASF download integrity checker (src/main.py).              *)
(*                                                                         *)
(* Strings are sequences of one-character strings.  A message of the       *)
(* error report is a record [kind, file, what, value]: kind is the fixed   *)
(* wording of the f-string, file/what/value are the interpolated values.   *)
(***************************************************************************)
EXTENDS Integers, Sequences, FiniteSets, TLC

VARIABLES
    sidecar,     \* verify_checksum under test: [text, content, method, filename]
    vc,          \* its outcome: [on_disk, calculated, errors], or NoResult
    pc,          \* where main() is: "main", "verify", "walk", "sig", "sleep", "done", "aborted"
    deadline,    \* CFG strong_checksum_deadline (0 when unset)
    forever,     \* "--forever" in sys.argv
    projects,    \* main(): the list of projects, fixed at start-up
    pidx,        \* position of the for-loop over projects (1-based)
    pass,        \* number of the current pass of the while-loop
    dist,        \* the dist tree: project -> [isdir, readable, KEYS]
    gpg_home,    \* the GPG home directories on disk: project -> imported keys
    known_fingerprints,      \* verify_files(): fingerprint -> key
    errors,      \* verify_files(): the error dict, filepath -> messages
    nfiles,      \* number of files os.walk yields for the project
    fidx,        \* position of the loop over the sorted files (1-based)
    cur,         \* the file of the current iteration, as read from disk
    valid_checksums_found,   \* verify_files(): valid checksums of the current artifact
    sig,         \* the .asc sidecar and verify_file() result of the last signature step
    recorded,    \* projects of this pass for which push_error was called
    alerted,     \* projects of this pass for which alert_project was called
    scanned,     \* projects of this pass whose loop iteration completed
    changes      \* changes made to the dist tree during the current sleep

vars == <<sidecar, vc, pc, deadline, forever, projects, pidx, pass, dist, gpg_home,
          known_fingerprints, errors, nfiles, fidx, cur, valid_checksums_found, sig,
          recorded, alerted, scanned, changes>>

(***************************************************************************)
(* Bounds                                                                  *)
(***************************************************************************)
MaxLen == 4          \* longest checksum sidecar text enumerated
MaxTime == 2         \* largest epoch second (mtime, key expiry, signing time)
MaxFiles == 2        \* most files in one project directory
MaxPasses == 2       \* passes of the --forever loop that are followed
MaxChanges == 1      \* changes to the dist tree during one sleep

(***************************************************************************)
(* Characters and strings                                                  *)
(***************************************************************************)
\* string.hexdigits, restricted to the characters of the model's alphabet
hexdigits == {"0", "1", "a", "b", "A", "B"}

\* the characters str.strip() removes, restricted to the model's alphabet
whitespace == {" ", "\t", "\n"}

\* the characters sidecar texts are made of: hex digits of both cases,
\* a letter that is no hex digit, and three kinds of white space
Alphabet == {"a", "B", "1", "g", " ", "\t", "\n"}

\* str.lower() on one character
lower_char(c) == CASE c = "A" -> "a" [] c = "B" -> "b" [] c = "G" -> "g" [] OTHER -> c

\* str.lower()
lower(s) == [i \in 1..Len(s) |-> lower_char(s[i])]

\* str.upper(), used to write sidecar texts
upper_char(c) == CASE c = "a" -> "A" [] c = "b" -> "B" [] c = "g" -> "G" [] OTHER -> c
upper(s) == [i \in 1..Len(s) |-> upper_char(s[i])]

RECURSIVE lstrip(_)
lstrip(s) == IF s # <<>> /\ Head(s) \in whitespace THEN lstrip(Tail(s)) ELSE s

RECURSIVE rstrip(_)
rstrip(s) ==
    IF s # <<>> /\ s[Len(s)] \in whitespace THEN rstrip(SubSeq(s, 1, Len(s) - 1)) ELSE s

\* str.strip()
strip(s) == rstrip(lstrip(s))

\* str.split(" "): cut at every single space, keeping empty pieces
RECURSIVE split_space(_)
split_space(s) ==
    IF \E i \in 1..Len(s) : s[i] = " "
    THEN LET i == CHOOSE k \in 1..Len(s) : s[k] = " " /\ \A j \in 1..(k - 1) : s[j] # " "
         IN  <<SubSeq(s, 1, i - 1)>> \o split_space(SubSeq(s, i + 1, Len(s)))
    ELSE <<s>>

\* all(c in string.hexdigits for c in x)
all_hex(x) == \A i \in 1..Len(x) : x[i] \in hexdigits

\* "".join(x.strip() for x in options if all(... for c in x.strip()))
RECURSIVE join_hex(_)
join_hex(options) ==
    IF options = <<>> THEN <<>>
    ELSE LET x == strip(Head(options))
         IN  (IF all_hex(x) THEN x ELSE <<>>) \o join_hex(Tail(options))

\* main.py:100  checksum_options = open(...).read().strip().split(" ")
checksum_options(text) == split_space(strip(text))

\* a checksum_on_disk that forgets .lower()
checksum_on_disk_nolower(text) == join_hex(checksum_options(text))

\* main.py:101  checksum_on_disk
checksum_on_disk(text) == lower(join_hex(checksum_options(text)))

(***************************************************************************)
(* Digest engine                                                           *)
(***************************************************************************)
strong_checksums == <<"sha256", "sha512">>
weak_checksums == <<"md5", "sha1">>
Methods == {"sha256", "sha512", "md5", "sha1"}
Contents == {"c1", "c2"}

\* digest(): hashlib's hexdigest, a fixed-width lower-case hex string that
\* depends on the file content and the method.  The hash itself is a lookup
\* table of two-character digests here.
digest(content, method) ==
    CASE content = "c1" /\ method = "sha256" -> <<"a", "b">>
      [] content = "c1" /\ method = "sha512" -> <<"b", "1">>
      [] content = "c1" /\ method = "md5"    -> <<"1", "a">>
      [] content = "c1" /\ method = "sha1"   -> <<"a", "1">>
      [] content = "c2" /\ method = "sha256" -> <<"b", "a">>
      [] content = "c2" /\ method = "sha512" -> <<"1", "b">>
      [] content = "c2" /\ method = "md5"    -> <<"a", "a">>
      [] content = "c2" /\ method = "sha1"   -> <<"b", "b">>

(***************************************************************************)
(* Messages                                                                *)
(***************************************************************************)
Msg(kind, file, what, value) == [kind |-> kind, file |-> file, what |-> what, value |-> value]

MISMATCH == "Checksum does not match checksum file"
CALCULATED == "Calculated checksum was"
DECLARED == "Checksum file said it should have been"
NO_VALID_ANY == "No valid checksum files (.md5, .sha1, .sha256, .sha512) found"
NO_VALID_STRONG == "No valid checksum files (.sha256, .sha512) found"
NOT_IN_KEYS == "signed with a fingerprint not found in the project's KEYS file"
KEY_EXPIRED == "signed by owner but the key has expired"
NOT_VERIFIED == "could not be used to verify"

\* no call of verify_checksum has been made
NoResult == [on_disk |-> <<"?">>, calculated |-> <<"?">>, errors |-> <<>>]

\* main.py:95-108  verify_checksum, once both files have been read
verify_checksum(text, content, filename, method) ==
    LET on_disk == checksum_on_disk(text)
        checksum_calculated == digest(content, method)
    IN  IF on_disk # checksum_calculated
        THEN << Msg(MISMATCH, filename, method, <<>>),
                Msg(CALCULATED, filename, method, checksum_calculated),
                Msg(DECLARED, filename, method, on_disk) >>
        ELSE <<>>

(***************************************************************************)
(* The error dict                                                          *)
(***************************************************************************)
NewDict == [p \in {} |-> <<>>]

\* the errmsg argument of push_error: a list of messages, or one message
AsList(msgs) == [is_list |-> TRUE, value |-> msgs]
AsStr(msg) == [is_list |-> FALSE, value |-> msg]

\* a push_error that starts the entry afresh on every call
push_error_overwrite(edict, filepath, errmsg) ==
    [p \in DOMAIN edict \cup {filepath} |->
        IF p = filepath
        THEN IF errmsg.is_list THEN errmsg.value ELSE <<errmsg.value>>
        ELSE edict[p]]

\* main.py:111-118  push_error
push_error(edict, filepath, errmsg) ==
    LET entry == IF filepath \in DOMAIN edict THEN edict[filepath] ELSE <<>>
    IN  [p \in DOMAIN edict \cup {filepath} |->
            IF p = filepath
            THEN IF errmsg.is_list THEN entry \o errmsg.value ELSE Append(entry, errmsg.value)
            ELSE edict[p]]

(***************************************************************************)
(* Files of the dist tree                                                  *)
(***************************************************************************)
AllProjects == {"p1", "p2"}
Keys == {"K1", "K2"}
NoFingerprint == "None"           \* verified.fingerprint when gpg names no key
Statuses == {"signature valid", "signature bad"}
known_exts == {"zip"}             \* CFG known_extensions
Stems == <<"a", "b", "c", "d">>   \* file names, in sorted order

\* what a sidecar <artifact>.<method> can be
SidecarStates == {"absent", "good", "bad", "unreadable"}

\* a file name is the sequence of its dot-separated parts
\* main.py:131  extension
extension(filename) == IF Len(filename) > 1 THEN filename[Len(filename)] ELSE ""

\* os.path.join(root, filename)
join_path(project, filename) == <<project>> \o filename

\* the text of an existing, readable checksum sidecar: the digest in upper
\* case followed by the file name ("good"), or the digest of other content
SidecarText(state, method) ==
    IF state = "good"
    THEN upper(digest("c1", method)) \o <<" ", " ">> \o <<"g">>
    ELSE digest("c2", method)

NoSums == [m \in Methods |-> "absent"]

\* the files the walk can find: an artifact with any modification time and
\* any sidecars, or a file with another extension
AllArtifacts ==
    [filename : {<<Stems[i], "zip">> : i \in 1..Len(Stems)}, mtime : 0..MaxTime,
     readable : BOOLEAN, sums : [Methods -> SidecarStates]]
    \cup {[filename |-> <<Stems[i], "zip", "asc">>, mtime |-> 0, readable |-> TRUE,
           sums |-> NoSums] : i \in 1..Len(Stems)}

\* a part of them: recent readable files whose .sha256 sidecar varies
SomeArtifacts ==
    {f \in AllArtifacts :
        /\ \A m \in Methods \ {"sha256"} : f.sums[m] = "absent"
        /\ f.readable /\ f.mtime = MaxTime}

NoFile == [filename |-> <<>>, mtime |-> 0, readable |-> TRUE, sums |-> NoSums]

\* str(n) of an epoch second, the form in which gpg prints a time
str(n) == ToString(n)
Epochs == {str(n) : n \in 0..MaxTime}

\* the "expires" field of a key that has no expiry: the empty string
NoExpiry == ""

\* verified.sig_timestamp when gpg reports no signing time: Python's None
NoTimestamp == "None"

\* main.py:175, 177  int(x) raises ValueError or TypeError unless x is a number
int_raises(x) == x \notin Epochs

\* main.py:175, 177  int(x)
int(x) == CHOOSE n \in 0..MaxTime : str(n) = x

\* keychain.verify_file(): the tagged result
NoVerify == [valid |-> FALSE, fingerprint |-> NoFingerprint, sig_timestamp |-> NoTimestamp,
             status |-> "signature bad"]

Verified ==
    {v \in [valid : BOOLEAN, fingerprint : Keys \cup {NoFingerprint},
            sig_timestamp : Epochs \cup {NoTimestamp}, status : Statuses] :
        v.valid => /\ v.status = "signature valid"
                   /\ v.fingerprint # NoFingerprint
                   /\ v.sig_timestamp # NoTimestamp}

\* the .asc sidecar of an artifact and what verifying it gives
AllSignatures ==
    {[asc |-> a, verified |-> NoVerify] : a \in {"absent", "unreadable"}}
    \cup {[asc |-> "present", verified |-> v] : v \in Verified}

\* a part of them: no or an unreadable .asc, or a bad signature by K1
SomeSignatures ==
    {s \in AllSignatures :
        s.asc = "present" => /\ s.verified.sig_timestamp = str(MaxTime)
                             /\ s.verified.status = "signature bad"
                             /\ s.verified.fingerprint = "K1"}

NoSignature == [asc |-> "absent", verified |-> NoVerify]

\* a key as keychain.list_keys() reports it: "expires" is the string gpg
\* prints, empty for a key without expiry; selfsig is the time of the newest
\* self-signature of the copy, by which gpg merges two copies of a key
KeyRecord(fp, expires, selfsig) ==
    [fingerprint |-> fp, expires |-> expires, uids |-> <<"owner", fp>>, selfsig |-> selfsig]

\* the keys a project's KEYS files can hold: any keys, without or with any expiry
AllKeySets ==
    UNION {[ks -> Epochs \cup {NoExpiry}] : ks \in SUBSET Keys}

KeysOf(expiry) == [fp \in DOMAIN expiry |-> KeyRecord(fp, expiry[fp], 1)]

\* a part of them: K1 does not expire, K2 expired at second 1
SomeKeySets == {[fp \in ks |-> IF fp = "K1" THEN NoExpiry ELSE str(1)] : ks \in SUBSET Keys}

(***************************************************************************)
(* verify_files: the checksum policy                                       *)
(***************************************************************************)
\* the state of one loop iteration: the error dict, valid_checksums_found,
\* whether push_error was called, whether an exception was raised
Iter(edict) == [errors |-> edict, valid |-> 0, pushed |-> FALSE, raised |-> FALSE]

Push(st, filepath, errmsg) ==
    [st EXCEPT !.errors = push_error(st.errors, filepath, errmsg), !.pushed = TRUE]

\* main.py:139-145 (and 151-157)  one checksum sidecar
check_sidecar(st, f, filepath, method) ==
    IF st.raised \/ f.sums[method] = "absent" THEN st
    ELSE IF f.sums[method] = "unreadable" \/ ~f.readable
         THEN [st EXCEPT !.raised = TRUE]     \* open() raises in verify_checksum or digest
         ELSE LET file_errors == verify_checksum(SidecarText(f.sums[method], method), "c1",
                                                 f.filename, method)
              IN  IF file_errors # <<>>
                  THEN Push(st, filepath, AsList(file_errors))
                  ELSE [st EXCEPT !.valid = @ + 1]

\* main.py:138-145  for method in CFG.get("strong_checksums")
RECURSIVE strong_loop(_, _, _, _)
strong_loop(st, f, filepath, methods) ==
    IF methods = <<>> THEN st
    ELSE strong_loop(check_sidecar(st, f, filepath, Head(methods)), f, filepath, Tail(methods))

\* main.py:150-157  the loop over weak_checksums only assigns chkfile; the
\* check that follows it runs once, for the last method
weak_loop(st, f, filepath, methods) ==
    check_sidecar(st, f, filepath, methods[Len(methods)])

\* main.py:148-160  the legacy branch
legacy_fallback(st, f, filepath) ==
    LET after == weak_loop(st, f, filepath, weak_checksums)
    IN  IF ~after.raised /\ after.valid = 0
        THEN Push(after, filepath, AsStr(Msg(NO_VALID_ANY, f.filename, "", <<>>)))
        ELSE after

\* a strong_required that reports nothing
strong_required_silent(st, f, filepath) == st

\* main.py:163-164  the elif branch
strong_required(st, f, filepath) ==
    IF st.valid = 0
    THEN Push(st, filepath, AsStr(Msg(NO_VALID_STRONG, f.filename, "", <<>>)))
    ELSE st

\* main.py:136-164  the checksums of one artifact
verify_checksums(edict, f, filepath, strong_checksum_deadline) ==
    LET after == strong_loop(Iter(edict), f, filepath, strong_checksums)
    IN  IF after.raised THEN after
        ELSE IF after.valid = 0 /\ f.mtime <= strong_checksum_deadline
             THEN legacy_fallback(after, f, filepath)
             ELSE strong_required(after, f, filepath)

(***************************************************************************)
(* verify_files: the detached signature                                    *)
(***************************************************************************)
\* main.py:170-182  what follows keychain.verify_file()
verify_signature(st, f, filepath, verified, known) ==
    IF verified.valid THEN st
    ELSE IF verified.fingerprint \notin DOMAIN known
         THEN Push(st, filepath,
                   AsStr(Msg(NOT_IN_KEYS, f.filename, verified.fingerprint, <<>>)))
         ELSE LET fp == known[verified.fingerprint]
              IN  IF int_raises(fp.expires)
                  THEN [st EXCEPT !.raised = TRUE]      \* main.py:175  int() raises
                  ELSE IF int_raises(verified.sig_timestamp)
                       THEN [st EXCEPT !.raised = TRUE] \* main.py:177  int() raises
                       ELSE IF int(fp.expires) < int(verified.sig_timestamp)
                            THEN Push(st, filepath,
                                      AsStr(Msg(KEY_EXPIRED, f.filename, verified.fingerprint,
                                                <<fp.uids[1]>>)))
                            ELSE IF verified.status # "signature valid"
                                 THEN Push(st, filepath,
                                           AsStr(Msg(NOT_VERIFIED, f.filename,
                                                     verified.status, <<>>)))
                                 ELSE st

(***************************************************************************)
(* load_keys and alert_project                                             *)
(***************************************************************************)
\* keychain.import_keys(): keys are kept by fingerprint; a key the keychain
\* already holds is merged with the imported copy, and the copy with the
\* newer self-signature decides what list_keys() reports
import_keys(keychain, keys) ==
    [fp \in DOMAIN keychain \cup DOMAIN keys |->
        IF fp \notin DOMAIN keychain THEN keys[fp]
        ELSE IF fp \notin DOMAIN keys THEN keychain[fp]
        ELSE IF keys[fp].selfsig > keychain[fp].selfsig THEN keys[fp]
        ELSE keychain[fp]]

\* main.py:39-41  alert_project notifies when the report is not empty
alert_project(told, project, report) ==
    IF DOMAIN report # {} THEN told \cup {project} ELSE told

(***************************************************************************)
(* main(): the state after start-up                                        *)
(***************************************************************************)
NoKeys == [fp \in {} |-> KeyRecord(fp, NoExpiry, 0)]
IdleSidecar == [text |-> <<>>, content |-> "c1", method |-> "sha256", filename |-> <<"a", "zip">>]

Project == projects[pidx]

InitMain ==
    /\ pc = "main"
    /\ pidx = 1
    /\ pass = 1
    /\ gpg_home = [p \in AllProjects |-> NoKeys]
    /\ known_fingerprints = NoKeys
    /\ errors = NewDict
    /\ nfiles = 0
    /\ fidx = 1
    /\ cur = NoFile
    /\ valid_checksums_found = 0
    /\ sig = NoSignature
    /\ recorded = {}
    /\ alerted = {}
    /\ scanned = {}
    /\ changes = 0

\* two projects that publish the same keys, some of K1 and K2, in their KEYS
\* files; the cutoff is not configured
Init ==
    /\ sidecar = IdleSidecar
    /\ vc = NoResult
    /\ InitMain
    /\ deadline = 0
    /\ forever \in BOOLEAN
    /\ projects = <<"p1", "p2">>
    /\ \E e \in SomeKeySets :
          dist = [p \in AllProjects |->
                    [isdir |-> TRUE, readable |-> TRUE, KEYS |-> KeysOf(e)]]

\* one project, with any keys in its KEYS file
InitFiles ==
    /\ sidecar = IdleSidecar
    /\ vc = NoResult
    /\ InitMain
    /\ deadline \in 0..(MaxTime - 1)
    /\ forever = FALSE
    /\ projects = <<"p1">>
    /\ \E e \in AllKeySets :
          dist = [p \in AllProjects |->
                    [isdir |-> TRUE, readable |-> TRUE,
                     KEYS |-> IF p = "p1" THEN KeysOf(e) ELSE NoKeys]]

(***************************************************************************)
(* main(): its steps                                                       *)
(***************************************************************************)
\* main.py:206, 68-83  load_keys(project)
LoadKeys ==
    /\ pc = "main"
    /\ pidx <= Len(projects)
    /\ IF ~dist[Project].isdir
       THEN \* main.py:72  the assert fails
            pc' = "aborted" /\ gpg_home' = gpg_home
       ELSE IF ~dist[Project].readable
            THEN \* main.py:82  open() raises
                 pc' = "aborted" /\ gpg_home' = gpg_home
            ELSE /\ pc' = "verify"
                 /\ gpg_home' = [gpg_home EXCEPT
                                    ![Project] = import_keys(@, dist[Project].KEYS)]
    /\ UNCHANGED <<sidecar, vc, deadline, forever, projects, pidx, pass, dist,
                   known_fingerprints, errors, nfiles, fidx, cur, valid_checksums_found,
                   sig, recorded, alerted, scanned, changes>>

\* main.py:207, 124-129  verify_files(project, keychain) up to the walk
BeginVerify(Sizes) ==
    /\ pc = "verify"
    /\ pc' = "walk"
    /\ errors' = NewDict
    /\ known_fingerprints' = gpg_home[Project]
    /\ valid_checksums_found' = 0
    /\ \E n \in Sizes : nfiles' = n
    /\ fidx' = 1
    /\ cur' = NoFile
    /\ UNCHANGED <<sidecar, vc, deadline, forever, projects, pidx, pass, dist, gpg_home,
                   sig, recorded, alerted, scanned, changes>>

\* main.py:130-164  the next file of the walk and its checksums
VisitFile(Files) ==
    /\ pc = "walk"
    /\ fidx <= nfiles
    /\ \E f \in {g \in Files : g.filename[1] = Stems[fidx]} :    \* sorted(files)
         LET filepath == join_path(Project, f.filename)
             res == verify_checksums(errors, f, filepath, deadline)
         IN  /\ cur' = f
             /\ IF extension(f.filename) \notin known_exts
                THEN /\ fidx' = fidx + 1
                     /\ UNCHANGED <<pc, errors, valid_checksums_found, recorded>>
                ELSE IF res.raised
                     THEN /\ pc' = "aborted"
                          /\ UNCHANGED <<fidx, errors, valid_checksums_found, recorded>>
                     ELSE /\ pc' = "sig"
                          /\ errors' = res.errors
                          /\ valid_checksums_found' = res.valid
                          /\ recorded' = IF res.pushed THEN recorded \cup {Project}
                                         ELSE recorded
                          /\ fidx' = fidx
    /\ UNCHANGED <<sidecar, vc, deadline, forever, projects, pidx, pass, dist, gpg_home,
                   known_fingerprints, nfiles, sig, alerted, scanned, changes>>

\* main.py:166-182  the detached signature of the current artifact
VerifySignature(Signatures) ==
    /\ pc = "sig"
    \* gpg finds a signature valid only under a key of the keychain
    /\ \E s \in {t \in Signatures :
                    t.verified.valid => t.verified.fingerprint \in DOMAIN known_fingerprints} :
         LET filepath == join_path(Project, cur.filename)
             res == verify_signature(Iter(errors), cur, filepath, s.verified,
                                     known_fingerprints)
         IN  /\ sig' = s
             /\ IF s.asc = "unreadable" \/ (s.asc = "present" /\ res.raised)
                THEN \* main.py:169  open() raises, or main.py:175, 177  int() raises
                     /\ pc' = "aborted"
                     /\ UNCHANGED <<fidx, errors, recorded, cur>>
                ELSE /\ pc' = "walk"
                     /\ fidx' = fidx + 1
                     /\ cur' = [NoFile EXCEPT !.filename = cur.filename]
                     /\ errors' = IF s.asc = "absent" THEN errors ELSE res.errors
                     /\ recorded' = IF s.asc # "absent" /\ res.pushed
                                    THEN recorded \cup {Project} ELSE recorded
    /\ UNCHANGED <<sidecar, vc, deadline, forever, projects, pidx, pass, dist, gpg_home,
                   known_fingerprints, nfiles, valid_checksums_found, alerted, scanned, changes>>

\* main.py:183, 208-212  verify_files returns; main alerts and goes on
FinishProject ==
    /\ pc = "walk"
    /\ fidx > nfiles
    /\ pc' = "main"
    /\ alerted' = IF DOMAIN errors # {} THEN alert_project(alerted, Project, errors)
                  ELSE alerted
    /\ scanned' = scanned \cup {Project}
    /\ pidx' = pidx + 1
    \* the locals of verify_files are gone
    /\ known_fingerprints' = NoKeys
    /\ errors' = NewDict
    /\ nfiles' = 0
    /\ fidx' = 1
    /\ cur' = NoFile
    /\ valid_checksums_found' = 0
    /\ sig' = NoSignature
    /\ UNCHANGED <<sidecar, vc, deadline, forever, projects, pass, dist, gpg_home,
                   recorded, changes>>

\* main.py:213-219  the end of a pass
EndPass ==
    /\ pc = "main"
    /\ pidx > Len(projects)
    /\ pc' = IF forever THEN "sleep" ELSE "done"
    /\ UNCHANGED <<sidecar, vc, deadline, forever, projects, pidx, pass, dist, gpg_home,
                   known_fingerprints, errors, nfiles, fidx, cur, valid_checksums_found,
                   sig, recorded, alerted, scanned, changes>>

\* main.py:217, 202-203  time.sleep(INTERVAL) returns, the next pass starts
Wake ==
    /\ pc = "sleep"
    /\ pass < MaxPasses
    /\ pc' = "main"
    /\ pass' = pass + 1
    /\ pidx' = 1
    /\ recorded' = {}
    /\ alerted' = {}
    /\ scanned' = {}
    /\ changes' = 0
    /\ UNCHANGED <<sidecar, vc, deadline, forever, projects, dist, gpg_home,
                   known_fingerprints, errors, nfiles, fidx, cur, valid_checksums_found, sig>>

(***************************************************************************)
(* The dist tree changes while the checker sleeps                          *)
(***************************************************************************)
\* a project takes a key out of its KEYS file
RemoveKey ==
    /\ pc = "sleep"
    /\ pass < MaxPasses
    /\ changes < MaxChanges
    /\ changes' = changes + 1
    /\ \E p \in AllProjects : \E fp \in DOMAIN dist[p].KEYS :
         dist' = [dist EXCEPT ![p].KEYS = [k \in DOMAIN @ \ {fp} |-> @[k]]]
    /\ UNCHANGED <<sidecar, vc, pc, deadline, forever, projects, pidx, pass, gpg_home,
                   known_fingerprints, errors, nfiles, fidx, cur, valid_checksums_found,
                   sig, recorded, alerted, scanned>>

\* the first project replaces K1 in its KEYS file by another copy of the key,
\* one with an older or a newer self-signature, that expires at second 1
ReplaceKey ==
    /\ pc = "sleep"
    /\ pass < MaxPasses
    /\ changes < MaxChanges
    /\ changes' = changes + 1
    /\ \E p \in {projects[1]} : \E fp \in DOMAIN dist[p].KEYS \cap {"K1"} : \E t \in {0, 2} :
         dist' = [dist EXCEPT ![p].KEYS[fp] = KeyRecord(fp, str(1), t)]
    /\ UNCHANGED <<sidecar, vc, pc, deadline, forever, projects, pidx, pass, gpg_home,
                   known_fingerprints, errors, nfiles, fidx, cur, valid_checksums_found,
                   sig, recorded, alerted, scanned>>

\* a project directory is removed, or a KEYS file loses its read permission
BreakProject ==
    /\ pc = "sleep"
    /\ pass < MaxPasses
    /\ changes < MaxChanges
    /\ changes' = changes + 1
    /\ \E p \in AllProjects : \E what \in {"isdir", "readable"} :
         /\ dist[p][what]
         /\ dist' = [dist EXCEPT ![p][what] = FALSE]
    /\ UNCHANGED <<sidecar, vc, pc, deadline, forever, projects, pidx, pass, gpg_home,
                   known_fingerprints, errors, nfiles, fidx, cur, valid_checksums_found,
                   sig, recorded, alerted, scanned>>

Next ==
    \/ LoadKeys
    \/ BeginVerify(0..MaxFiles)
    \/ VisitFile(SomeArtifacts)
    \/ VerifySignature(SomeSignatures)
    \/ FinishProject
    \/ EndPass
    \/ Wake
    \/ RemoveKey
    \/ ReplaceKey
    \/ BreakProject

Spec == Init /\ [][Next]_vars

NextFiles ==
    \/ LoadKeys
    \/ BeginVerify({1})
    \/ VisitFile(AllArtifacts)
    \/ VerifySignature(AllSignatures)
    \/ FinishProject
    \/ EndPass

SpecFiles == InitFiles /\ [][NextFiles]_vars

(***************************************************************************)
(* verify_checksum as a function of the sidecar text                       *)
(***************************************************************************)
RECURSIVE Texts(_)
Texts(n) ==
    IF n = 0 THEN {<<>>}
    ELSE LET shorter == Texts(n - 1)
         IN  shorter \cup {Append(t, c) : t \in {s \in shorter : Len(s) = n - 1}, c \in Alphabet}

InitChecksum ==
    /\ sidecar \in [text : Texts(MaxLen), content : Contents, method : Methods,
                    filename : {<<"a", "zip">>}]
    /\ vc = NoResult
    /\ InitMain
    /\ deadline = 0
    /\ forever = FALSE
    /\ projects = <<>>
    /\ dist = [p \in AllProjects |-> [isdir |-> TRUE, readable |-> TRUE, KEYS |-> NoKeys]]

\* main.py:95-108  verify_checksum(filepath, method)
VerifyChecksum ==
    /\ vc = NoResult
    /\ vc' = [on_disk |-> checksum_on_disk(sidecar.text),
              calculated |-> digest(sidecar.content, sidecar.method),
              errors |-> verify_checksum(sidecar.text, sidecar.content,
                                         sidecar.filename, sidecar.method)]
    /\ UNCHANGED <<sidecar, pc, deadline, forever, projects, pidx, pass, dist, gpg_home,
                   known_fingerprints, errors, nfiles, fidx, cur, valid_checksums_found,
                   sig, recorded, alerted, scanned, changes>>

NextChecksum == VerifyChecksum

SpecChecksum == InitChecksum /\ [][NextChecksum]_vars

(***************************************************************************)
(* Properties                                                              *)
(***************************************************************************)
\* the path of the current artifact and its entry of the report
CurPath == join_path(Project, cur.filename)
Entry(edict, filepath) == IF filepath \in DOMAIN edict THEN edict[filepath] ELSE <<>>
Kinds(entry) == {entry[i].kind : i \in 1..Len(entry)}
CountKind(entry, kind) == Cardinality({i \in 1..Len(entry) : entry[i].kind = kind})
IsPrefix(a, b) == Len(a) <= Len(b) /\ SubSeq(b, 1, Len(a)) = a

\* the checksums of the current artifact have been verified and verify_files
\* has not returned
ChecksumsDone ==
    \/ pc = "sig"
    \/ pc = "walk" /\ cur.filename # <<>> /\ extension(cur.filename) \in known_exts

\* C1: an artifact whose checksums verify_files has gone through has at least
\* one valid checksum or a "No valid checksum files ..." message in its entry
C1_ValidOrReported ==
    ChecksumsDone =>
        \/ valid_checksums_found >= 1
        \/ Kinds(Entry(errors, CurPath)) \cap {NO_VALID_ANY, NO_VALID_STRONG} # {}

\* a recent artifact with a failing .sha256 and a good .md5: no valid checksum
C1_Witness ==
    /\ pc = "sig"
    /\ valid_checksums_found = 0
    /\ cur.mtime > deadline
    /\ cur.sums["sha256"] = "bad"
    /\ cur.sums["md5"] = "good"
    /\ NO_VALID_STRONG \in Kinds(Entry(errors, CurPath))

\* C2: with a cutoff configured, an artifact not newer than it that has no
\* strong sidecar, a valid sidecar of one of the weak algorithms and no
\* failing weak sidecar has a valid checksum and no error
C2_WeakFallback ==
    ( /\ pc = "sig"
      /\ deadline > 0
      /\ cur.mtime <= deadline
      /\ \A i \in 1..Len(strong_checksums) : cur.sums[strong_checksums[i]] = "absent"
      /\ \E i \in 1..Len(weak_checksums) : cur.sums[weak_checksums[i]] = "good"
      /\ \A i \in 1..Len(weak_checksums) : cur.sums[weak_checksums[i]] \in {"good", "absent"} )
    => (valid_checksums_found >= 1 /\ CurPath \notin DOMAIN errors)

\* C3: an artifact without a valid strong checksum that is newer than the
\* cutoff, or checked with the cutoff 0, gets the strong-only message once,
\* not the legacy message, and no weak sidecar of it is verified
C3_StrongOnly ==
    ( /\ pc = "sig"
      /\ \A i \in 1..Len(strong_checksums) : cur.sums[strong_checksums[i]] # "good"
      /\ (cur.mtime > deadline \/ deadline = 0) )
    => LET entry == Entry(errors, CurPath)
       IN  /\ CountKind(entry, NO_VALID_STRONG) = 1
           /\ CountKind(entry, NO_VALID_ANY) = 0
           /\ \A i \in 1..Len(entry) :
                 \A j \in 1..Len(weak_checksums) : entry[i].what # weak_checksums[j]

\* the hex digits a sidecar text declares, in the case they are written in
DeclaredDigest == join_hex(checksum_options(sidecar.text))

\* C4: verify_checksum returns no error when the declared digest equals the
\* computed one up to the case of its letters, and otherwise the mismatch
\* notice, the computed value and the declared value, in this order
C4_Verdict ==
    vc # NoResult =>
        IF lower(DeclaredDigest) = lower(vc.calculated)
        THEN vc.errors = <<>>
        ELSE /\ Len(vc.errors) = 3
             /\ vc.errors[1] = Msg(MISMATCH, sidecar.filename, sidecar.method, <<>>)
             /\ vc.errors[2] = Msg(CALCULATED, sidecar.filename, sidecar.method,
                                   digest(sidecar.content, sidecar.method))
             /\ vc.errors[3] = Msg(DECLARED, sidecar.filename, sidecar.method,
                                   lower(DeclaredDigest))

\* a sidecar with an upper-case letter that is accepted
C4_Witness ==
    /\ vc # NoResult
    /\ vc.errors = <<>>
    /\ \E i \in 1..Len(sidecar.text) : sidecar.text[i] = "B"

\* the tokens of a text cut at runs of white space
RECURSIVE Tokens(_)
Tokens(s) ==
    LET t == lstrip(s)
    IN  IF t = <<>> THEN <<>>
        ELSE LET ends == {k \in 1..Len(t) : t[k] \in whitespace}
                 n == IF ends = {} THEN Len(t) + 1
                      ELSE CHOOSE k \in ends : \A j \in ends : k <= j
             IN  <<SubSeq(t, 1, n - 1)>> \o Tokens(SubSeq(t, n, Len(t)))

RECURSIVE ConcatHex(_)
ConcatHex(tokens) ==
    IF tokens = <<>> THEN <<>>
    ELSE (IF all_hex(Head(tokens)) THEN Head(tokens) ELSE <<>>) \o ConcatHex(Tail(tokens))

\* C5: the expected digest is the lower-cased concatenation of the hex-only
\* tokens of the sidecar text split at white space of any kind
C5_WhitespaceTokens ==
    vc # NoResult => vc.on_disk = lower(ConcatHex(Tokens(sidecar.text)))

\* a key without expiry, or with the expiry 0, does not expire
NonExpiring(key) == key.expires \in {NoExpiry, str(0)}

\* the messages the signature step is to append for a result of verify_file
\* that carries a signing time
SignatureMessages(filename, verified, known) ==
    IF verified.valid THEN <<>>
    ELSE IF verified.fingerprint \notin DOMAIN known
         THEN <<Msg(NOT_IN_KEYS, filename, verified.fingerprint, <<>>)>>
         ELSE IF /\ known[verified.fingerprint].expires # NoExpiry
                 /\ int(known[verified.fingerprint].expires) < int(verified.sig_timestamp)
              THEN <<Msg(KEY_EXPIRED, filename, verified.fingerprint,
                         <<known[verified.fingerprint].uids[1]>>)>>
              ELSE IF verified.status # "signature valid"
                   THEN <<Msg(NOT_VERIFIED, filename, verified.status, <<>>)>>
                   ELSE <<>>

\* C6: whatever the checksums gave, the signature step leaves the report as
\* it is when there is no .asc or the signature is valid, and otherwise
\* appends the one message of the ordered decision (unknown fingerprint,
\* expiry earlier than the signing time, status), or none
C6_SignatureStep ==
    [][ (pc = "sig" /\ sig'.asc # "unreadable"
                    /\ (sig'.asc = "present" => sig'.verified.sig_timestamp \in Epochs)) =>
          LET added == IF sig'.asc = "absent" THEN <<>>
                       ELSE SignatureMessages(cur.filename, sig'.verified, known_fingerprints)
          IN  /\ Len(added) <= 1
              /\ (sig'.asc = "absent" \/ sig'.verified.valid) => added = <<>>
              /\ IF added = <<>> THEN errors' = errors
                 ELSE /\ DOMAIN errors' = DOMAIN errors \cup {CurPath}
                      /\ errors'[CurPath] = Entry(errors, CurPath) \o added
                      /\ \A p \in DOMAIN errors \ {CurPath} : errors'[p] = errors[p]
      ]_vars

\* C7: a signature by a key whose recorded expiry is absent or 0 never gets
\* the "key has expired" message, whatever its signing time
C7_ZeroNeverExpires ==
    ( /\ pc = "walk"
      /\ sig.asc = "present"
      /\ sig.verified.fingerprint \in DOMAIN known_fingerprints
      /\ NonExpiring(known_fingerprints[sig.verified.fingerprint]) )
    => KEY_EXPIRED \notin Kinds(Entry(errors, CurPath))

\* C8: the fingerprints verify_files trusts in a pass are the keys of the
\* KEYS files the project tree holds at that pass
C8_FreshKeychain ==
    pc \in {"walk", "sig"} =>
        DOMAIN known_fingerprints = DOMAIN dist[Project].KEYS

\* C9: when the process has stopped, every project of the list has been
\* scanned in the last pass
C9_ScanGoesOn ==
    pc \in {"done", "aborted"} => scanned = {projects[i] : i \in 1..Len(projects)}

\* C10: every path of the report has at least one message; while verify_files
\* runs an entry only grows at its end; the report is empty exactly when
\* push_error was not called; main alerts exactly for the projects with errors
C10_Report ==
    /\ [](/\ \A p \in DOMAIN errors : Len(errors[p]) >= 1
          /\ pc \in {"walk", "sig"} => (DOMAIN errors = {} <=> Project \notin recorded)
          /\ \A p \in scanned : p \in alerted <=> p \in recorded)
    /\ [][ (pc \in {"walk", "sig"} /\ pc' \in {"walk", "sig"}) =>
              \A p \in DOMAIN errors :
                  p \in DOMAIN errors' /\ IsPrefix(errors[p], errors'[p]) ]_vars

\* a report with two paths, one of them with the three lines of a mismatch
\* followed by a fourth message
C10_Witness ==
    /\ pc \in {"walk", "sig"}
    /\ Cardinality(DOMAIN errors) = 2
    /\ \E p \in DOMAIN errors : Len(errors[p]) >= 4 /\ errors[p][1].kind = MISMATCH
====
